---- MODULE Spec2Model ----
(***************************************************************************)
(* Model of the MQTT v5 streaming decoder of src/src/decoder.rs.           *)
(*                                                                         *)
(* A byte is a number 0..255, a buffer is a sequence of bytes (TLA+        *)
(* sequences are 1-based, the cursor position is 0-based as in the code).  *)
(* A String is represented by its bytes.  Option<T> is a sequence of       *)
(* length at most one: <<>> is None and <<v>> is Some(v).                  *)
(* Every reader returns a record [st, val, pos, err]:                      *)
(*   st = "Produced"   Ok(Some(val)), cursor at pos                        *)
(*   st = "Incomplete" Ok(None)                                            *)
(*   st = "Failed"     Err(err)                                            *)
(*   st = "Panicked"   the call panicked (arithmetic overflow check)       *)
(***************************************************************************)
EXTENDS Integers, Sequences, FiniteSets, TLC

VARIABLES
    frame,      \* the frame the peer sends first (what the claims call E or F)
    suffix,     \* the bytes the peer sends after it (S)
    wire,       \* bytes sent by the peer that have not reached the buffer yet
    buf,        \* the caller's BytesMut
    before,     \* contents of buf at entry of the last call
    outcome,    \* result of the last call, Idle once the caller moved on
    waited,     \* TRUE iff bytes arrived after a call returned Incomplete
    overflow_checks
                \* TRUE iff the build checks arithmetic overflow (the debug
                \* profile); fixed when the program is built

vars == <<frame, suffix, wire, buf, before, outcome, waited, overflow_checks>>

(***************************************************************************)
(* Results                                                                 *)
(***************************************************************************)
Produced(v, p) == [st |-> "Produced", val |-> v, pos |-> p, err |-> "none"]

Incomplete(p) == [st |-> "Incomplete", val |-> <<>>, pos |-> p, err |-> "none"]

Failed(e, p) == [st |-> "Failed", val |-> <<>>, pos |-> p, err |-> e]

Panicked(p) == [st |-> "Panicked", val |-> <<>>, pos |-> p, err |-> "none"]

\* return_if_none! and the ? operator: a result that is not Produced leaves
\* the calling function unchanged
Bubble(r) == [st |-> r.st, val |-> <<>>, pos |-> r.pos, err |-> r.err]

\* return_if_none!(x?) followed by the rest K of the function: the rest runs
\* only on Ok(Some(_))
Then(r, K(_)) == IF r.st # "Produced" THEN Bubble(r) ELSE K(r)

Idle == [st |-> "Idle", val |-> <<>>, pos |-> 0, err |-> "none"]

(***************************************************************************)
(* Primitive readers                                                       *)
(***************************************************************************)
remaining(b, pos) == Len(b) - pos

read_u8(b, pos) ==
    IF remaining(b, pos) < 1 THEN Incomplete(pos)
    ELSE Produced(b[pos + 1], pos + 1)

read_u16(b, pos) ==
    IF remaining(b, pos) < 2 THEN Incomplete(pos)
    ELSE Produced(b[pos + 1] * 256 + b[pos + 2], pos + 2)

\* a u32 is kept as its two big-endian 16-bit halves <<high, low>>: the
\* model checker's integers are 32-bit signed
U32(v) == <<v \div 65536, v % 65536>>

read_u32(b, pos) ==
    IF remaining(b, pos) < 4 THEN Incomplete(pos)
    ELSE Produced(<<b[pos + 1] * 256 + b[pos + 2],
                    b[pos + 3] * 256 + b[pos + 4]>>, pos + 4)

\* bytes.get_ref()[position..(position + n)]
Slice(b, pos, n) == [i \in 1..n |-> b[pos + i]]

\* the loop of decode_variable_int
RECURSIVE vbi_loop(_, _, _, _)
vbi_loop(b, pos, multiplier, value) ==
    Then(read_u8(b, pos), LAMBDA encoded_byte :
    IF multiplier * 128 > 128 * 128 * 128
    THEN Failed("InvalidRemainingLength", encoded_byte.pos)
    ELSE IF encoded_byte.val < 128
         THEN Produced(value + (encoded_byte.val % 128) * multiplier,
                       encoded_byte.pos)
         ELSE vbi_loop(b, encoded_byte.pos, multiplier * 128,
                       value + (encoded_byte.val % 128) * multiplier))

decode_variable_int(b, pos) == vbi_loop(b, pos, 1, 0)

\* String::from_utf8: TRUE iff s[i..] is well-formed UTF-8
Cont(s, i) == i <= Len(s) /\ s[i] \in 128..191

RECURSIVE ValidUtf8From(_, _)
ValidUtf8From(s, i) ==
    IF i > Len(s) THEN TRUE
    ELSE IF s[i] < 128 THEN ValidUtf8From(s, i + 1)
    ELSE IF s[i] \in 194..223
         THEN Cont(s, i + 1) /\ ValidUtf8From(s, i + 2)
    ELSE IF s[i] \in 224..239
         THEN /\ Cont(s, i + 1) /\ Cont(s, i + 2)
              /\ (s[i] = 224 => s[i + 1] >= 160)
              /\ (s[i] = 237 => s[i + 1] <= 159)
              /\ ValidUtf8From(s, i + 3)
    ELSE IF s[i] \in 240..244
         THEN /\ Cont(s, i + 1) /\ Cont(s, i + 2) /\ Cont(s, i + 3)
              /\ (s[i] = 240 => s[i + 1] >= 144)
              /\ (s[i] = 244 => s[i + 1] <= 143)
              /\ ValidUtf8From(s, i + 4)
    ELSE FALSE

from_utf8_ok(s) == ValidUtf8From(s, 1)

decode_string(b, pos) ==
    Then(read_u16(b, pos), LAMBDA str_size_bytes :
    IF remaining(b, str_size_bytes.pos) < str_size_bytes.val
    THEN Incomplete(str_size_bytes.pos)
    ELSE IF from_utf8_ok(Slice(b, str_size_bytes.pos, str_size_bytes.val))
         THEN Produced(Slice(b, str_size_bytes.pos, str_size_bytes.val),
                       str_size_bytes.pos + str_size_bytes.val)
         ELSE Failed("InvalidUtf8", str_size_bytes.pos))

\* the cursor is not advanced past the data
decode_binary_data(b, pos) ==
    Then(read_u16(b, pos), LAMBDA data_size_bytes :
    IF remaining(b, data_size_bytes.pos) < data_size_bytes.val
    THEN Incomplete(data_size_bytes.pos)
    ELSE Produced(Slice(b, data_size_bytes.pos, data_size_bytes.val),
                  data_size_bytes.pos))

\* size is a usize; the cursor is not advanced past the data
decode_binary_data_with_size(b, pos, size) ==
    IF remaining(b, pos) < size THEN Incomplete(pos)
    ELSE Produced(Slice(b, pos, size), pos)

read_string_pair(b, pos) ==
    Then(decode_string(b, pos), LAMBDA string_key :
    Then(decode_string(b, string_key.pos), LAMBDA string_value :
    Produced(<<string_key.val, string_value.val>>, string_value.pos)))

(***************************************************************************)
(* Enumerations of crate::types (TryFrom conversions)                      *)
(***************************************************************************)
\* QoS::try_from(u8): Some(qos) or None
QoS_try_from(v) ==
    IF v = 0 THEN <<"AtMostOnce">>
    ELSE IF v = 1 THEN <<"AtLeastOnce">>
    ELSE IF v = 2 THEN <<"ExactlyOnce">>
    ELSE <<>>

\* RetainHandling::try_from(u8)
RetainHandling_try_from(v) == IF v \in 0..2 THEN <<v>> ELSE <<>>

\* PacketType::try_from(u8)
PacketType_try_from(v) ==
    IF v \in 1..15
    THEN << <<"Connect", "ConnectAck", "Publish", "PublishAck",
              "PublishReceived", "PublishRelease", "PublishComplete",
              "Subscribe", "SubscribeAck", "Unsubscribe", "UnsubscribeAck",
              "PingRequest", "PingResponse", "Disconnect",
              "Authenticate">>[v] >>
    ELSE <<>>

\* PropertyType::try_from(u32): the table of 27 identifiers
PropertyIds ==
    {1, 2, 3, 8, 9, 11, 17, 18, 19, 21, 22, 23, 24, 25, 26, 28, 31,
     33, 34, 35, 36, 37, 38, 39, 40, 41, 42}

PropertyName(id) ==
    CASE id = 1 -> "PayloadFormatIndicator"
      [] id = 2 -> "MessageExpiryInterval"
      [] id = 3 -> "ContentType"
      [] id = 8 -> "ResponseTopic"
      [] id = 9 -> "CorrelationData"
      [] id = 11 -> "SubscriptionIdentifier"
      [] id = 17 -> "SessionExpiryInterval"
      [] id = 18 -> "AssignedClientIdentifier"
      [] id = 19 -> "ServerKeepAlive"
      [] id = 21 -> "AuthenticationMethod"
      [] id = 22 -> "AuthenticationData"
      [] id = 23 -> "RequestProblemInformation"
      [] id = 24 -> "WillDelayInterval"
      [] id = 25 -> "RequestResponseInformation"
      [] id = 26 -> "ResponseInformation"
      [] id = 28 -> "ServerReference"
      [] id = 31 -> "ReasonString"
      [] id = 33 -> "ReceiveMaximum"
      [] id = 34 -> "TopicAliasMaximum"
      [] id = 35 -> "TopicAlias"
      [] id = 36 -> "MaximumQos"
      [] id = 37 -> "RetainAvailable"
      [] id = 38 -> "UserProperty"
      [] id = 39 -> "MaximumPacketSize"
      [] id = 40 -> "WildcardSubscriptionAvailable"
      [] id = 41 -> "SubscriptionIdentifierAvailable"
      [] id = 42 -> "SharedSubscriptionAvailable"

PropertyType_try_from(id) ==
    IF id \in PropertyIds THEN <<PropertyName(id)>> ELSE <<>>

\* reason codes are kept as their byte; Success and NormalDisconnection
\* are both 0x00
Success == 0

NormalDisconnection == 0

ConnectReasons ==
    {0, 128, 129, 130, 131, 132, 133, 134, 135, 136, 137, 138, 140, 144,
     149, 151, 153, 154, 155, 156, 157, 159}

PublishAckReasons == {0, 16, 128, 131, 135, 144, 145, 151, 153}

PublishReceivedReasons == {0, 16, 128, 131, 135, 144, 145, 151, 153}

PublishReleaseReasons == {0, 146}

PublishCompleteReasons == {0, 146}

SubscribeAckReasons == {0, 1, 2, 128, 131, 135, 143, 145, 151, 158, 161, 162}

UnsubscribeAckReasons == {0, 17, 128, 131, 135, 143, 145}

DisconnectReasons ==
    {0, 4, 128, 129, 130, 131, 135, 137, 139, 141, 142, 143, 144}
    \cup (147..162)

AuthenticateReasons == {0, 24, 25}

(***************************************************************************)
(* Property codec                                                          *)
(***************************************************************************)
\* Ok(Some(Property::name(r.val)))
Prop(name, r) ==
    Then(r, LAMBDA v : Produced([name |-> name, val |-> v.val], v.pos))

U8Properties ==
    {"PayloadFormatIndicator", "RequestProblemInformation",
     "RequestResponseInformation", "RetainAvailable",
     "WildcardSubscriptionAvailable", "SubscriptionIdentifierAvailable",
     "SharedSubscriptionAvailable"}

U16Properties ==
    {"ServerKeepAlive", "ReceiveMaximum", "TopicAliasMaximum", "TopicAlias"}

U32Properties ==
    {"MessageExpiryInterval", "SubscriptionIdentifier",
     "SessionExpiryInterval", "WillDelayInterval", "MaximumPacketSize"}

StringProperties ==
    {"ContentType", "ResponseTopic", "AssignedClientIdentifier",
     "AuthenticationMethod", "ResponseInformation", "ServerReference",
     "ReasonString"}

BinaryProperties == {"CorrelationData", "AuthenticationData"}

\* the match of decode_property on the property type
decode_property_of(name, b, pos) ==
    IF name \in U8Properties THEN Prop(name, read_u8(b, pos))
    ELSE IF name \in U16Properties THEN Prop(name, read_u16(b, pos))
    ELSE IF name \in U32Properties THEN Prop(name, read_u32(b, pos))
    ELSE IF name \in StringProperties THEN Prop(name, decode_string(b, pos))
    ELSE IF name \in BinaryProperties
         THEN Prop(name, decode_binary_data(b, pos))
    ELSE IF name = "MaximumQos"
         THEN Then(read_u8(b, pos), LAMBDA qos_byte :
              IF QoS_try_from(qos_byte.val) = <<>>
              THEN Failed("InvalidQoS", qos_byte.pos)
              ELSE Produced([name |-> name,
                             val |-> QoS_try_from(qos_byte.val)[1]],
                            qos_byte.pos))
    ELSE Prop(name, read_string_pair(b, pos))

decode_property(property_id, b, pos) ==
    IF PropertyType_try_from(property_id) = <<>>
    THEN Failed("InvalidPropertyId", pos)
    ELSE decode_property_of(PropertyType_try_from(property_id)[1], b, pos)

\* read_property!
read_property(b, pos) ==
    Then(decode_variable_int(b, pos), LAMBDA property_id :
    decode_property(property_id.val, b, property_id.pos))

\* the loop of decode_properties; acc is the sequence of properties handed
\* to the closure so far
RECURSIVE properties_loop(_, _, _, _, _)
properties_loop(b, pos, start_cursor_pos, property_length, acc) ==
    IF pos - start_cursor_pos >= property_length THEN Produced(acc, pos)
    ELSE Then(read_property(b, pos), LAMBDA property :
         properties_loop(b, property.pos, start_cursor_pos, property_length,
                         Append(acc, property.val)))

\* Produced(val): val is the sequence of the properties the closure was
\* called with, in call order
decode_properties(b, pos) ==
    Then(decode_variable_int(b, pos), LAMBDA property_length :
    IF property_length.val = 0 THEN Produced(<<>>, property_length.pos)
    ELSE IF remaining(b, property_length.pos) < property_length.val
         THEN Incomplete(property_length.pos)
         ELSE properties_loop(b, property_length.pos, property_length.pos,
                              property_length.val, <<>>))

\* a closure arm `Property::X(p) => x = Some(p)`: the field ends up holding
\* the last X the closure was called with
RECURSIVE LastOf(_, _)
LastOf(props, name) ==
    IF props = <<>> THEN <<>>
    ELSE IF props[Len(props)].name = name THEN <<props[Len(props)].val>>
    ELSE LastOf(SubSeq(props, 1, Len(props) - 1), name)

\* the closure arm `Property::UserProperty(p) => user_properties.push(p)`
RECURSIVE AllOf(_, _)
AllOf(props, name) ==
    IF props = <<>> THEN <<>>
    ELSE IF props[1].name = name
         THEN <<props[1].val>> \o AllOf(Tail(props), name)
         ELSE AllOf(Tail(props), name)

(***************************************************************************)
(* Per-kind packet decoders.  rl is remaining_packet_length.  oc tells     *)
(* whether the build checks arithmetic overflow (debug) or wraps (release).*)
(***************************************************************************)
Bit(x, k) == (x \div (2 ^ k)) % 2 = 1

\* stands for a wrapped u64 difference (at least 2^64 - 2^32): larger than
\* every buffer length and every byte count the model compares it with
WrappedU64 == 1073741824

\* `remaining_packet_length as u64 - variable_header_size`
PayloadSize(rl, variable_header_size, oc) ==
    IF variable_header_size <= rl THEN <<rl - variable_header_size>>
    ELSE IF oc THEN <<>> ELSE <<WrappedU64>>

\* an optional part of a packet: read only when present
Optional(present, r, pos) == IF present THEN r ELSE Produced(<<>>, pos)

\* the Will of decode_connect, built from the will properties, the will
\* topic and the will payload
FinalWill(flags, will_qos, wprops, topic, payload) ==
    [topic |-> topic,
     payload |-> payload,
     qos |-> will_qos,
     should_retain |-> Bit(flags, 5),
     will_delay_interval |-> LastOf(wprops, "WillDelayInterval"),
     payload_format_indicator |-> LastOf(wprops, "PayloadFormatIndicator"),
     message_expiry_interval |-> LastOf(wprops, "MessageExpiryInterval"),
     content_type |-> LastOf(wprops, "ContentType"),
     response_topic |-> LastOf(wprops, "ResponseTopic"),
     correlation_data |-> LastOf(wprops, "CorrelationData"),
     user_properties |-> AllOf(wprops, "UserProperty")]

decode_connect(b, pos) ==
    Then(decode_string(b, pos), LAMBDA protocol_name :
    Then(read_u8(b, protocol_name.pos), LAMBDA protocol_level :
    Then(read_u8(b, protocol_level.pos), LAMBDA connect_flags :
    Then(read_u16(b, connect_flags.pos), LAMBDA keep_alive :
    Then(decode_properties(b, keep_alive.pos), LAMBDA props :
    IF QoS_try_from((connect_flags.val \div 8) % 4) = <<>>
    THEN Failed("InvalidQoS", props.pos) ELSE
    Then(decode_string(b, props.pos), LAMBDA client_id :
    Then(Optional(Bit(connect_flags.val, 2),
                  decode_properties(b, client_id.pos), client_id.pos),
         LAMBDA wprops :
    Then(Optional(Bit(connect_flags.val, 2),
                  decode_string(b, wprops.pos), wprops.pos),
         LAMBDA topic :
    Then(Optional(Bit(connect_flags.val, 2),
                  decode_binary_data(b, topic.pos), topic.pos),
         LAMBDA payload :
    Then(Optional(Bit(connect_flags.val, 7),
                  decode_string(b, payload.pos), payload.pos),
         LAMBDA user_name :
    Then(Optional(Bit(connect_flags.val, 6),
                  decode_string(b, user_name.pos), user_name.pos),
         LAMBDA password :
    Produced(
        [type |-> "Connect",
         protocol_name |-> protocol_name.val,
         protocol_level |-> protocol_level.val,
         clean_start |-> Bit(connect_flags.val, 1),
         keep_alive |-> keep_alive.val,
         session_expiry_interval |->
             LastOf(props.val, "SessionExpiryInterval"),
         receive_maximum |-> LastOf(props.val, "ReceiveMaximum"),
         maximum_packet_size |-> LastOf(props.val, "MaximumPacketSize"),
         topic_alias_maximum |-> LastOf(props.val, "TopicAliasMaximum"),
         request_response_information |->
             LastOf(props.val, "RequestResponseInformation"),
         request_problem_information |->
             LastOf(props.val, "RequestProblemInformation"),
         user_properties |-> AllOf(props.val, "UserProperty"),
         authentication_method |-> LastOf(props.val, "AuthenticationMethod"),
         authentication_data |-> LastOf(props.val, "AuthenticationData"),
         client_id |-> client_id.val,
         will |-> IF Bit(connect_flags.val, 2)
                  THEN <<FinalWill(connect_flags.val,
                                   QoS_try_from(
                                       (connect_flags.val \div 8) % 4)[1],
                                   wprops.val, topic.val, payload.val)>>
                  ELSE <<>>,
         user_name |-> IF Bit(connect_flags.val, 7) THEN <<user_name.val>>
                       ELSE <<>>,
         password |-> IF Bit(connect_flags.val, 6) THEN <<password.val>>
                      ELSE <<>>],
        password.pos))))))))))))

decode_connect_ack(b, pos) ==
    Then(read_u8(b, pos), LAMBDA flags :
    Then(read_u8(b, flags.pos), LAMBDA reason_code_byte :
    IF reason_code_byte.val \notin ConnectReasons
    THEN Failed("InvalidConnectReason", reason_code_byte.pos) ELSE
    Then(decode_properties(b, reason_code_byte.pos), LAMBDA props :
    Produced(
        [type |-> "ConnectAck",
         session_present |-> Bit(flags.val, 0),
         reason_code |-> reason_code_byte.val,
         session_expiry_interval |->
             LastOf(props.val, "SessionExpiryInterval"),
         receive_maximum |-> LastOf(props.val, "ReceiveMaximum"),
         maximum_qos |-> LastOf(props.val, "MaximumQos"),
         retain_available |-> LastOf(props.val, "RetainAvailable"),
         maximum_packet_size |-> LastOf(props.val, "MaximumPacketSize"),
         assigned_client_identifier |->
             LastOf(props.val, "AssignedClientIdentifier"),
         topic_alias_maximum |-> LastOf(props.val, "TopicAliasMaximum"),
         reason_string |-> LastOf(props.val, "ReasonString"),
         user_properties |-> AllOf(props.val, "UserProperty"),
         wildcard_subscription_available |->
             LastOf(props.val, "WildcardSubscriptionAvailable"),
         subscription_identifiers_available |->
             LastOf(props.val, "SubscriptionIdentifierAvailable"),
         shared_subscription_available |->
             LastOf(props.val, "SharedSubscriptionAvailable"),
         server_keep_alive |-> LastOf(props.val, "ServerKeepAlive"),
         response_information |-> LastOf(props.val, "ResponseInformation"),
         server_reference |-> LastOf(props.val, "ServerReference"),
         authentication_method |-> LastOf(props.val, "AuthenticationMethod"),
         authentication_data |-> LastOf(props.val, "AuthenticationData")],
        props.pos))))

\* the Publish packet of decode_publish
PublishPacket(first_byte, qos, topic_name, packet_id, props, payload) ==
    [type |-> "Publish",
     is_duplicate |-> Bit(first_byte, 3),
     qos |-> qos,
     retain |-> Bit(first_byte, 0),
     topic_name |-> topic_name,
     packet_id |-> packet_id,
     payload_format_indicator |-> LastOf(props, "PayloadFormatIndicator"),
     message_expiry_interval |-> LastOf(props, "MessageExpiryInterval"),
     topic_alias |-> LastOf(props, "TopicAlias"),
     response_topic |-> LastOf(props, "ResponseTopic"),
     correlation_data |-> LastOf(props, "CorrelationData"),
     user_properties |-> AllOf(props, "UserProperty"),
     subscription_identifier |-> LastOf(props, "SubscriptionIdentifier"),
     content_type |-> LastOf(props, "ContentType"),
     payload |-> payload]

\* the body of decode_publish once the QoS bits are known to be valid
publish_body(b, pos, first_byte, rl, oc, qos, no_packet_id) ==
    Then(decode_string(b, pos), LAMBDA topic_name :
    Then(Optional(~no_packet_id, read_u16(b, topic_name.pos), topic_name.pos),
         LAMBDA packet_id :
    Then(decode_properties(b, packet_id.pos), LAMBDA props :
    IF PayloadSize(rl, props.pos - pos, oc) = <<>>
    THEN Panicked(props.pos) ELSE
    Then(decode_binary_data_with_size(
             b, props.pos, PayloadSize(rl, props.pos - pos, oc)[1]),
         LAMBDA payload :
    Produced(PublishPacket(first_byte, qos, topic_name.val,
                           IF no_packet_id THEN <<>> ELSE <<packet_id.val>>,
                           props.val, payload.val),
             payload.pos)))))

\* decode_publish with AtLeastOnce in the arm of AtMostOnce
decode_publish_qos1(b, pos, first_byte, rl, oc) ==
    IF QoS_try_from((first_byte \div 2) % 4) = <<>>
    THEN Failed("InvalidQoS", pos)
    ELSE publish_body(b, pos, first_byte, rl, oc,
                      QoS_try_from((first_byte \div 2) % 4)[1],
                      QoS_try_from((first_byte \div 2) % 4)[1]
                          \in {"AtMostOnce", "AtLeastOnce"})

decode_publish(b, pos, first_byte, rl, oc) ==
    IF QoS_try_from((first_byte \div 2) % 4) = <<>>
    THEN Failed("InvalidQoS", pos)
    ELSE publish_body(b, pos, first_byte, rl, oc,
                      QoS_try_from((first_byte \div 2) % 4)[1],
                      QoS_try_from((first_byte \div 2) % 4)[1] = "AtMostOnce")

\* the tail of the four acknowledgement decoders: reason code, then the
\* properties when the remaining length has room for them
ack_reason(b, packet_id, rl, type, reasons, error) ==
    Then(read_u8(b, packet_id.pos), LAMBDA reason_code_byte :
    IF reason_code_byte.val \notin reasons
    THEN Failed(error, reason_code_byte.pos) ELSE
    Then(Optional(rl >= 4, decode_properties(b, reason_code_byte.pos),
                  reason_code_byte.pos),
         LAMBDA props :
    Produced([type |-> type,
              packet_id |-> packet_id.val,
              reason_code |-> reason_code_byte.val,
              reason_string |-> LastOf(props.val, "ReasonString"),
              user_properties |-> AllOf(props.val, "UserProperty")],
             props.pos)))

\* decode_ack without the early return for remaining length 2
decode_ack_always_reason(b, pos, rl, type, reasons, error) ==
    Then(read_u16(b, pos), LAMBDA packet_id :
    ack_reason(b, packet_id, rl, type, reasons, error))

\* decode_publish_ack, decode_publish_received, decode_publish_release and
\* decode_publish_complete are the same function up to the packet variant,
\* the reason enumeration and its error
decode_ack(b, pos, rl, type, reasons, error) ==
    Then(read_u16(b, pos), LAMBDA packet_id :
    IF rl = 2
    THEN Produced([type |-> type,
                   packet_id |-> packet_id.val,
                   reason_code |-> Success,
                   reason_string |-> <<>>,
                   user_properties |-> <<>>], packet_id.pos)
    ELSE ack_reason(b, packet_id, rl, type, reasons, error))

decode_publish_ack(b, pos, rl) ==
    decode_ack(b, pos, rl, "PublishAck", PublishAckReasons,
               "InvalidPublishAckReason")

decode_publish_received(b, pos, rl) ==
    decode_ack(b, pos, rl, "PublishReceived", PublishReceivedReasons,
               "InvalidPublishReceivedReason")

decode_publish_release(b, pos, rl) ==
    decode_ack(b, pos, rl, "PublishRelease", PublishReleaseReasons,
               "InvalidPublishReleaseReason")

decode_publish_complete(b, pos, rl) ==
    decode_ack(b, pos, rl, "PublishComplete", PublishCompleteReasons,
               "InvalidPublishCompleteReason")

\* one entry of the payload of decode_subscribe
SubscriptionTopic(topic, o) ==
    [topic |-> topic,
     maximum_qos |-> QoS_try_from(o % 4)[1],
     no_local |-> Bit(o, 2),
     retain_as_published |-> Bit(o, 3),
     retain_handling |-> RetainHandling_try_from((o \div 16) % 4)[1]]

\* the entry loop of decode_subscribe
RECURSIVE subscribe_loop(_, _, _, _, _)
subscribe_loop(b, pos, bytes_read, payload_size, subscription_topics) ==
    IF bytes_read >= payload_size THEN Produced(subscription_topics, pos) ELSE
    Then(decode_string(b, pos), LAMBDA topic :
    Then(read_u8(b, topic.pos), LAMBDA options_byte :
    IF QoS_try_from(options_byte.val % 4) = <<>>
    THEN Failed("InvalidQoS", options_byte.pos) ELSE
    IF RetainHandling_try_from((options_byte.val \div 16) % 4) = <<>>
    THEN Failed("InvalidRetainHandling", options_byte.pos) ELSE
    subscribe_loop(b, options_byte.pos,
                   bytes_read + (options_byte.pos - pos), payload_size,
                   Append(subscription_topics,
                          SubscriptionTopic(topic.val, options_byte.val)))))

decode_subscribe(b, pos, rl, oc) ==
    Then(read_u16(b, pos), LAMBDA packet_id :
    Then(decode_properties(b, packet_id.pos), LAMBDA props :
    IF PayloadSize(rl, props.pos - pos, oc) = <<>>
    THEN Panicked(props.pos) ELSE
    Then(subscribe_loop(b, props.pos, 0,
                        PayloadSize(rl, props.pos - pos, oc)[1], <<>>),
         LAMBDA topics :
    Produced([type |-> "Subscribe",
              packet_id |-> packet_id.val,
              subscription_identifier |->
                  LastOf(props.val, "SubscriptionIdentifier"),
              user_properties |-> AllOf(props.val, "UserProperty"),
              subscription_topics |-> topics.val],
             topics.pos))))

\* `for _ in 0..payload_size` of decode_subscribe_ack and
\* decode_unsubscribe_ack: n iterations are left
RECURSIVE reason_codes_loop(_, _, _, _, _, _)
reason_codes_loop(b, pos, n, reasons, error, reason_codes) ==
    IF n = 0 THEN Produced(reason_codes, pos) ELSE
    Then(read_u8(b, pos), LAMBDA next_byte :
    IF next_byte.val \notin reasons THEN Failed(error, next_byte.pos) ELSE
    reason_codes_loop(b, next_byte.pos, n - 1, reasons, error,
                      Append(reason_codes, next_byte.val)))

\* decode_subscribe_ack and decode_unsubscribe_ack are the same function
\* up to the packet variant, the reason enumeration and its error
decode_reason_list(b, pos, rl, oc, type, reasons, error) ==
    Then(read_u16(b, pos), LAMBDA packet_id :
    Then(decode_properties(b, packet_id.pos), LAMBDA props :
    IF PayloadSize(rl, props.pos - pos, oc) = <<>>
    THEN Panicked(props.pos) ELSE
    Then(reason_codes_loop(b, props.pos,
                           PayloadSize(rl, props.pos - pos, oc)[1],
                           reasons, error, <<>>),
         LAMBDA codes :
    Produced([type |-> type,
              packet_id |-> packet_id.val,
              reason_string |-> LastOf(props.val, "ReasonString"),
              user_properties |-> AllOf(props.val, "UserProperty"),
              reason_codes |-> codes.val],
             codes.pos))))

decode_subscribe_ack(b, pos, rl, oc) ==
    decode_reason_list(b, pos, rl, oc, "SubscribeAck", SubscribeAckReasons,
                       "InvalidSubscribeAckReason")

decode_unsubscribe_ack(b, pos, rl, oc) ==
    decode_reason_list(b, pos, rl, oc, "UnsubscribeAck",
                       UnsubscribeAckReasons, "InvalidUnsubscribeAckReason")

\* the topic loop of decode_unsubscribe
RECURSIVE unsubscribe_loop(_, _, _, _, _)
unsubscribe_loop(b, pos, bytes_read, payload_size, topics) ==
    IF bytes_read >= payload_size THEN Produced(topics, pos) ELSE
    Then(decode_string(b, pos), LAMBDA topic :
    unsubscribe_loop(b, topic.pos, bytes_read + (topic.pos - pos),
                     payload_size, Append(topics, topic.val)))

decode_unsubscribe(b, pos, rl, oc) ==
    Then(read_u16(b, pos), LAMBDA packet_id :
    Then(decode_properties(b, packet_id.pos), LAMBDA props :
    IF PayloadSize(rl, props.pos - pos, oc) = <<>>
    THEN Panicked(props.pos) ELSE
    Then(unsubscribe_loop(b, props.pos, 0,
                          PayloadSize(rl, props.pos - pos, oc)[1], <<>>),
         LAMBDA topics :
    Produced([type |-> "Unsubscribe",
              packet_id |-> packet_id.val,
              user_properties |-> AllOf(props.val, "UserProperty"),
              topics |-> topics.val],
             topics.pos))))

decode_disconnect(b, pos, rl) ==
    IF rl = 0
    THEN Produced([type |-> "Disconnect",
                   reason_code |-> NormalDisconnection,
                   session_expiry_interval |-> <<>>,
                   reason_string |-> <<>>,
                   user_properties |-> <<>>,
                   server_reference |-> <<>>], pos)
    ELSE
    Then(read_u8(b, pos), LAMBDA reason_code_byte :
    IF reason_code_byte.val \notin DisconnectReasons
    THEN Failed("InvalidDisconnectReason", reason_code_byte.pos) ELSE
    Then(Optional(rl >= 2, decode_properties(b, reason_code_byte.pos),
                  reason_code_byte.pos),
         LAMBDA props :
    Produced([type |-> "Disconnect",
              reason_code |-> reason_code_byte.val,
              session_expiry_interval |->
                  LastOf(props.val, "SessionExpiryInterval"),
              reason_string |-> LastOf(props.val, "ReasonString"),
              user_properties |-> AllOf(props.val, "UserProperty"),
              server_reference |-> LastOf(props.val, "ServerReference")],
             props.pos)))

decode_authenticate(b, pos, rl) ==
    IF rl = 0
    THEN Produced([type |-> "Authenticate",
                   reason_code |-> Success,
                   authentication_method |-> <<>>,
                   authentication_data |-> <<>>,
                   reason_string |-> <<>>,
                   user_properties |-> <<>>], pos)
    ELSE
    Then(read_u8(b, pos), LAMBDA reason_code_byte :
    IF reason_code_byte.val \notin AuthenticateReasons
    THEN Failed("InvalidAuthenticateReason", reason_code_byte.pos) ELSE
    Then(Optional(rl >= 2, decode_properties(b, reason_code_byte.pos),
                  reason_code_byte.pos),
         LAMBDA props :
    Produced([type |-> "Authenticate",
              reason_code |-> reason_code_byte.val,
              authentication_method |->
                  LastOf(props.val, "AuthenticationMethod"),
              authentication_data |-> LastOf(props.val, "AuthenticationData"),
              reason_string |-> LastOf(props.val, "ReasonString"),
              user_properties |-> AllOf(props.val, "UserProperty")],
             props.pos)))

decode_packet(packet_type, b, pos, rl, first_byte, oc) ==
    CASE packet_type = "Connect" -> decode_connect(b, pos)
      [] packet_type = "ConnectAck" -> decode_connect_ack(b, pos)
      [] packet_type = "Publish" -> decode_publish(b, pos, first_byte, rl, oc)
      [] packet_type = "PublishAck" -> decode_publish_ack(b, pos, rl)
      [] packet_type = "PublishReceived" ->
             decode_publish_received(b, pos, rl)
      [] packet_type = "PublishRelease" -> decode_publish_release(b, pos, rl)
      [] packet_type = "PublishComplete" ->
             decode_publish_complete(b, pos, rl)
      [] packet_type = "Subscribe" -> decode_subscribe(b, pos, rl, oc)
      [] packet_type = "SubscribeAck" -> decode_subscribe_ack(b, pos, rl, oc)
      [] packet_type = "Unsubscribe" -> decode_unsubscribe(b, pos, rl, oc)
      [] packet_type = "UnsubscribeAck" ->
             decode_unsubscribe_ack(b, pos, rl, oc)
      [] packet_type = "PingRequest" ->
             Produced([type |-> "PingRequest"], pos)
      [] packet_type = "PingResponse" ->
             Produced([type |-> "PingResponse"], pos)
      [] packet_type = "Disconnect" -> decode_disconnect(b, pos, rl)
      [] packet_type = "Authenticate" -> decode_authenticate(b, pos, rl)

(***************************************************************************)
(* Frame driver.  The result's pos is the cursor position at return.       *)
(***************************************************************************)
decode_mqtt(b, oc) ==
    Then(read_u8(b, 0), LAMBDA first_byte :
    IF PacketType_try_from(first_byte.val \div 16) = <<>>
    THEN Failed("InvalidPacketType", first_byte.pos) ELSE
    Then(decode_variable_int(b, first_byte.pos), LAMBDA rl :
    IF Len(b) - rl.pos < rl.val THEN Incomplete(rl.pos) ELSE
    decode_packet(PacketType_try_from(first_byte.val \div 16)[1], b, rl.pos,
                  rl.val, first_byte.val, oc)))

\* a decoder that skips a malformed frame: a Failed result drains what the
\* cursor passed, too
BufferAfter_skip(b, r) ==
    IF r.st \in {"Produced", "Failed"} THEN SubSeq(b, r.pos + 1, Len(b))
    ELSE b

\* an eager decoder: whatever the cursor passed is gone
BufferAfter_eager(b, r) == SubSeq(b, r.pos + 1, Len(b))

\* the caller's buffer after the call that returned r: only a Produced
\* result reaches bytes.split_to(cursor_pos)
BufferAfter(b, r) ==
    IF r.st = "Produced" THEN SubSeq(b, r.pos + 1, Len(b)) ELSE b

(***************************************************************************)
(* Encoder (spec section 4.5): fixed-header byte, minimal VBI              *)
(* remaining-length, variable header, payload.                             *)
(***************************************************************************)
enc_u16(v) == <<v \div 256, v % 256>>

enc_u32(v) == enc_u16(v[1]) \o enc_u16(v[2])

RECURSIVE enc_vbi(_)
enc_vbi(v) ==
    IF v < 128 THEN <<v>> ELSE <<128 + (v % 128)>> \o enc_vbi(v \div 128)

enc_string(s) == enc_u16(Len(s)) \o s

enc_binary(d) == enc_u16(Len(d)) \o d

enc_qos(q) ==
    IF q = "AtMostOnce" THEN 0 ELSE IF q = "AtLeastOnce" THEN 1 ELSE 2

PropertyId(name) == CHOOSE id \in PropertyIds : PropertyName(id) = name

\* one property: identifier, then the payload of the type section 3.3 gives
enc_property(name, val) ==
    enc_vbi(PropertyId(name)) \o
    (IF name = "SubscriptionIdentifier"
     THEN enc_vbi(val[1] * 65536 + val[2])
     ELSE IF name \in U8Properties THEN <<val>>
     ELSE IF name \in U16Properties THEN enc_u16(val)
     ELSE IF name \in U32Properties THEN enc_u32(val)
     ELSE IF name \in StringProperties THEN enc_string(val)
     ELSE IF name \in BinaryProperties THEN enc_binary(val)
     ELSE IF name = "MaximumQos" THEN <<enc_qos(val)>>
     ELSE enc_string(val[1]) \o enc_string(val[2]))

\* the closure of each per-kind decoder: which property is stored in
\* which field of the packet (UserProperty goes to user_properties)
Acceptor(type) ==
    CASE type = "Connect" ->
             << <<"SessionExpiryInterval", "session_expiry_interval">>,
                <<"ReceiveMaximum", "receive_maximum">>,
                <<"MaximumPacketSize", "maximum_packet_size">>,
                <<"TopicAliasMaximum", "topic_alias_maximum">>,
                <<"RequestResponseInformation",
                  "request_response_information">>,
                <<"RequestProblemInformation",
                  "request_problem_information">>,
                <<"AuthenticationMethod", "authentication_method">>,
                <<"AuthenticationData", "authentication_data">> >>
      [] type = "Will" ->
             << <<"WillDelayInterval", "will_delay_interval">>,
                <<"PayloadFormatIndicator", "payload_format_indicator">>,
                <<"MessageExpiryInterval", "message_expiry_interval">>,
                <<"ContentType", "content_type">>,
                <<"ResponseTopic", "response_topic">>,
                <<"CorrelationData", "correlation_data">> >>
      [] type = "ConnectAck" ->
             << <<"SessionExpiryInterval", "session_expiry_interval">>,
                <<"ReceiveMaximum", "receive_maximum">>,
                <<"MaximumQos", "maximum_qos">>,
                <<"RetainAvailable", "retain_available">>,
                <<"MaximumPacketSize", "maximum_packet_size">>,
                <<"AssignedClientIdentifier", "assigned_client_identifier">>,
                <<"TopicAliasMaximum", "topic_alias_maximum">>,
                <<"ReasonString", "reason_string">>,
                <<"WildcardSubscriptionAvailable",
                  "wildcard_subscription_available">>,
                <<"SubscriptionIdentifierAvailable",
                  "subscription_identifiers_available">>,
                <<"SharedSubscriptionAvailable",
                  "shared_subscription_available">>,
                <<"ServerKeepAlive", "server_keep_alive">>,
                <<"ResponseInformation", "response_information">>,
                <<"ServerReference", "server_reference">>,
                <<"AuthenticationMethod", "authentication_method">>,
                <<"AuthenticationData", "authentication_data">> >>
      [] type = "Publish" ->
             << <<"PayloadFormatIndicator", "payload_format_indicator">>,
                <<"MessageExpiryInterval", "message_expiry_interval">>,
                <<"TopicAlias", "topic_alias">>,
                <<"ResponseTopic", "response_topic">>,
                <<"CorrelationData", "correlation_data">>,
                <<"SubscriptionIdentifier", "subscription_identifier">>,
                <<"ContentType", "content_type">> >>
      [] type \in {"PublishAck", "PublishReceived", "PublishRelease",
                   "PublishComplete", "SubscribeAck", "UnsubscribeAck"} ->
             << <<"ReasonString", "reason_string">> >>
      [] type = "Subscribe" ->
             << <<"SubscriptionIdentifier", "subscription_identifier">> >>
      [] type = "Unsubscribe" -> <<>>
      [] type = "Disconnect" ->
             << <<"SessionExpiryInterval", "session_expiry_interval">>,
                <<"ReasonString", "reason_string">>,
                <<"ServerReference", "server_reference">> >>
      [] type = "Authenticate" ->
             << <<"AuthenticationMethod", "authentication_method">>,
                <<"AuthenticationData", "authentication_data">>,
                <<"ReasonString", "reason_string">> >>

RECURSIVE enc_singletons(_, _)
enc_singletons(rec, fields) ==
    IF fields = <<>> THEN <<>>
    ELSE (IF rec[fields[1][2]] = <<>> THEN <<>>
          ELSE enc_property(fields[1][1], rec[fields[1][2]][1]))
         \o enc_singletons(rec, Tail(fields))

RECURSIVE enc_user_properties(_)
enc_user_properties(ups) ==
    IF ups = <<>> THEN <<>>
    ELSE enc_property("UserProperty", ups[1])
         \o enc_user_properties(Tail(ups))

\* the contents of the property bag of rec: the set singletons, then the
\* user properties in their order
Bag(rec, type) ==
    enc_singletons(rec, Acceptor(type)) \o
    enc_user_properties(rec.user_properties)

enc_properties(bag) == enc_vbi(Len(bag)) \o bag

Flag(c, weight) == IF c THEN weight ELSE 0

PacketTypeCode(type) ==
    CHOOSE v \in 1..15 : PacketType_try_from(v) = <<type>>

FirstByte(p) ==
    PacketTypeCode(p.type) * 16 +
    (IF p.type = "Publish"
     THEN Flag(p.is_duplicate, 8) + enc_qos(p.qos) * 2 + Flag(p.retain, 1)
     ELSE 0)

RECURSIVE enc_subscription_topics(_)
enc_subscription_topics(ts) ==
    IF ts = <<>> THEN <<>>
    ELSE enc_string(ts[1].topic)
         \o <<enc_qos(ts[1].maximum_qos) + Flag(ts[1].no_local, 4)
              + Flag(ts[1].retain_as_published, 8)
              + ts[1].retain_handling * 16>>
         \o enc_subscription_topics(Tail(ts))

RECURSIVE enc_topics(_)
enc_topics(ts) ==
    IF ts = <<>> THEN <<>> ELSE enc_string(ts[1]) \o enc_topics(Tail(ts))

\* the variable header up to the property bag
Pre(p) ==
    CASE p.type = "Connect" ->
             enc_string(p.protocol_name) \o <<p.protocol_level>>
             \o <<Flag(p.clean_start, 2) + Flag(p.will # <<>>, 4)
                  + (IF p.will = <<>> THEN 0
                     ELSE enc_qos(p.will[1].qos) * 8
                          + Flag(p.will[1].should_retain, 32))
                  + Flag(p.password # <<>>, 64)
                  + Flag(p.user_name # <<>>, 128)>>
             \o enc_u16(p.keep_alive)
      [] p.type = "ConnectAck" ->
             <<Flag(p.session_present, 1), p.reason_code>>
      [] p.type = "Publish" ->
             enc_string(p.topic_name)
             \o (IF p.packet_id = <<>> THEN <<>>
                 ELSE enc_u16(p.packet_id[1]))
      [] p.type \in {"PublishAck", "PublishReceived", "PublishRelease",
                     "PublishComplete"} ->
             enc_u16(p.packet_id) \o <<p.reason_code>>
      [] p.type \in {"Subscribe", "SubscribeAck", "Unsubscribe",
                     "UnsubscribeAck"} -> enc_u16(p.packet_id)
      [] p.type \in {"Disconnect", "Authenticate"} -> <<p.reason_code>>
      [] OTHER -> <<>>

\* what follows the property bag
Post(p) ==
    CASE p.type = "Connect" ->
             enc_string(p.client_id)
             \o (IF p.will = <<>> THEN <<>>
                 ELSE enc_properties(Bag(p.will[1], "Will"))
                      \o enc_string(p.will[1].topic)
                      \o enc_binary(p.will[1].payload))
             \o (IF p.user_name = <<>> THEN <<>>
                 ELSE enc_string(p.user_name[1]))
             \o (IF p.password = <<>> THEN <<>>
                 ELSE enc_string(p.password[1]))
      [] p.type = "Publish" -> p.payload
      [] p.type = "Subscribe" -> enc_subscription_topics(p.subscription_topics)
      [] p.type = "Unsubscribe" -> enc_topics(p.topics)
      [] p.type \in {"SubscribeAck", "UnsubscribeAck"} -> p.reason_codes
      [] OTHER -> <<>>

HasBag(type) == type \notin {"PingRequest", "PingResponse"}

\* fixed header: first byte, minimal VBI remaining-length
Frame(first_byte, body) == <<first_byte>> \o enc_vbi(Len(body)) \o body

\* the frame of p with the bytes extra appended to its property bag
encode_with(p, extra) ==
    Frame(FirstByte(p),
          IF HasBag(p.type)
          THEN Pre(p) \o enc_properties(Bag(p, p.type) \o extra) \o Post(p)
          ELSE <<>>)

encode(p) == encode_with(p, <<>>)

(***************************************************************************)
(* Bounds and inputs                                                       *)
(***************************************************************************)
MaxPayload == 2      \* longest Publish / will payload

MaxUserProps == 2    \* most user properties in one bag

MaxSuffix == 2       \* most bytes sent after the frame

MaxRaw == 3          \* longest body of a hand-made frame

MaxVbiLen == 5       \* longest input of decode_variable_int

MaxBinary == 4       \* longest input of the length-prefixed readers

Min(a, c) == IF a < c THEN a ELSE c

\* bytes 1, 2, ..., n
Payload(n) == [i \in 1..n |-> i]

Payloads == {Payload(n) : n \in 0..MaxPayload}

\* ("k", "1"), ("k", "2"), ...
UserProps(n) == [i \in 1..n |-> << <<107>>, <<48 + i>> >>]

UserPropertyLists == {UserProps(n) : n \in 0..MaxUserProps}

\* what the peer sends next: Disconnect, PingRequest, PingResponse, ...
NextFrames == <<224, 0, 192, 0, 208, 0, 224, 0>>

Suffixes == {SubSeq(NextFrames, 1, n) : n \in 0..Min(MaxSuffix, Len(NextFrames))}

QoSs == {"AtMostOnce", "AtLeastOnce", "ExactlyOnce"}

WillBase ==
    [topic |-> <<119>>, payload |-> <<>>, qos |-> "AtMostOnce",
     should_retain |-> FALSE, will_delay_interval |-> <<>>,
     payload_format_indicator |-> <<>>, message_expiry_interval |-> <<>>,
     content_type |-> <<>>, response_topic |-> <<>>,
     correlation_data |-> <<>>, user_properties |-> <<>>]

ConnectBase ==
    [type |-> "Connect", protocol_name |-> <<77, 81, 84, 84>>,
     protocol_level |-> 5, clean_start |-> TRUE, keep_alive |-> 60,
     session_expiry_interval |-> <<>>, receive_maximum |-> <<>>,
     maximum_packet_size |-> <<>>, topic_alias_maximum |-> <<>>,
     request_response_information |-> <<>>,
     request_problem_information |-> <<>>, user_properties |-> <<>>,
     authentication_method |-> <<>>, authentication_data |-> <<>>,
     client_id |-> <<116, 101, 115, 116>>, will |-> <<>>,
     user_name |-> <<>>, password |-> <<>>]

ConnectAckBase ==
    [type |-> "ConnectAck", session_present |-> FALSE, reason_code |-> 0,
     session_expiry_interval |-> <<>>, receive_maximum |-> <<>>,
     maximum_qos |-> <<>>, retain_available |-> <<>>,
     maximum_packet_size |-> <<>>, assigned_client_identifier |-> <<>>,
     topic_alias_maximum |-> <<>>, reason_string |-> <<>>,
     user_properties |-> <<>>, wildcard_subscription_available |-> <<>>,
     subscription_identifiers_available |-> <<>>,
     shared_subscription_available |-> <<>>, server_keep_alive |-> <<>>,
     response_information |-> <<>>, server_reference |-> <<>>,
     authentication_method |-> <<>>, authentication_data |-> <<>>]

PublishBase ==
    [type |-> "Publish", is_duplicate |-> FALSE, qos |-> "AtMostOnce",
     retain |-> FALSE, topic_name |-> <<97>>, packet_id |-> <<>>,
     payload_format_indicator |-> <<>>, message_expiry_interval |-> <<>>,
     topic_alias |-> <<>>, response_topic |-> <<>>,
     correlation_data |-> <<>>, user_properties |-> <<>>,
     subscription_identifier |-> <<>>, content_type |-> <<>>,
     payload |-> <<>>]

AckBase(type) ==
    [type |-> type, packet_id |-> 7, reason_code |-> 0,
     reason_string |-> <<>>, user_properties |-> <<>>]

SubscribeBase ==
    [type |-> "Subscribe", packet_id |-> 7,
     subscription_identifier |-> <<>>, user_properties |-> <<>>,
     subscription_topics |->
         << [topic |-> <<97>>, maximum_qos |-> "AtLeastOnce",
             no_local |-> FALSE, retain_as_published |-> TRUE,
             retain_handling |-> 2] >>]

ReasonListBase(type) ==
    [type |-> type, packet_id |-> 7, reason_string |-> <<>>,
     user_properties |-> <<>>, reason_codes |-> <<0>>]

UnsubscribeBase ==
    [type |-> "Unsubscribe", packet_id |-> 7, user_properties |-> <<>>,
     topics |-> << <<97>> >>]

DisconnectBase ==
    [type |-> "Disconnect", reason_code |-> 0,
     session_expiry_interval |-> <<>>, reason_string |-> <<>>,
     user_properties |-> <<>>, server_reference |-> <<>>]

AuthenticateBase ==
    [type |-> "Authenticate", reason_code |-> 0,
     authentication_method |-> <<>>, authentication_data |-> <<>>,
     reason_string |-> <<>>, user_properties |-> <<>>]

AckTypes ==
    {"PublishAck", "PublishReceived", "PublishRelease", "PublishComplete"}

\* one packet of every kind, nothing optional set
BasePackets ==
    {ConnectBase, [ConnectBase EXCEPT !.will = <<WillBase>>],
     ConnectAckBase, PublishBase, SubscribeBase, UnsubscribeBase,
     ReasonListBase("SubscribeAck"), ReasonListBase("UnsubscribeAck"),
     DisconnectBase, AuthenticateBase,
     [type |-> "PingRequest"], [type |-> "PingResponse"]}
    \cup {AckBase(t) : t \in AckTypes}

ConnectPackets ==
    {[ConnectBase EXCEPT !.user_properties = ups] : ups \in UserPropertyLists}
    \cup {[ConnectBase EXCEPT !.will = << [WillBase EXCEPT !.payload = pl] >>]
             : pl \in Payloads}
    \cup {[ConnectBase EXCEPT !.will = << [WillBase EXCEPT !.payload = pl,
                                                   !.qos = "ExactlyOnce",
                                                   !.should_retain = TRUE] >>,
                              !.user_name = << <<117>> >>,
                              !.password = << <<112>> >>] : pl \in Payloads}
    \cup {[ConnectBase EXCEPT !.will =
               << [WillBase EXCEPT !.will_delay_interval = <<U32(5)>>,
                                   !.correlation_data = << <<9>> >>,
                                   !.content_type = << <<99>> >>] >>],
          [ConnectBase EXCEPT !.session_expiry_interval = <<U32(300)>>,
                              !.receive_maximum = <<10>>,
                              !.request_problem_information = <<1>>],
          [ConnectBase EXCEPT !.authentication_method = << <<109>> >>,
                              !.authentication_data = << <<0>> >>,
                              !.clean_start = FALSE]}

ConnectAckPackets ==
    {[ConnectAckBase EXCEPT !.user_properties = ups]
        : ups \in UserPropertyLists}
    \cup {[ConnectAckBase EXCEPT !.session_present = TRUE,
                                 !.reason_code = 128,
                                 !.maximum_qos = <<"AtLeastOnce">>,
                                 !.server_keep_alive = <<30>>,
                                 !.reason_string = << <<114>> >>],
          [ConnectAckBase EXCEPT !.authentication_data = << <<1, 2>> >>,
                                 !.assigned_client_identifier = << <<99>> >>]}

PublishPackets ==
    {[PublishBase EXCEPT !.qos = q,
                         !.packet_id = IF q = "AtMostOnce" THEN <<>>
                                       ELSE <<7>>,
                         !.payload = pl] : q \in QoSs, pl \in Payloads}
    \cup {[PublishBase EXCEPT !.user_properties = ups,
                              !.payload = Payload(Len(ups))]
             : ups \in UserPropertyLists}
    \cup {[PublishBase EXCEPT !.is_duplicate = TRUE, !.retain = TRUE,
                              !.qos = "AtLeastOnce", !.packet_id = <<258>>,
                              !.topic_alias = <<3>>,
                              !.payload_format_indicator = <<1>>],
          [PublishBase EXCEPT !.correlation_data = << <<1>> >>],
          [PublishBase EXCEPT !.subscription_identifier = <<U32(5)>>],
          [PublishBase EXCEPT !.subscription_identifier = <<U32(200)>>,
                              !.message_expiry_interval = <<U32(60)>>],
          [PublishBase EXCEPT !.topic_name = <<195, 169>>,
                              !.response_topic = << <<114>> >>,
                              !.content_type = << <<99>> >>]}

AckPackets ==
    {[AckBase(t) EXCEPT !.user_properties = ups]
        : t \in AckTypes, ups \in UserPropertyLists}
    \cup {[AckBase(t) EXCEPT !.reason_code =
                                 IF t \in {"PublishAck", "PublishReceived"}
                                 THEN 16 ELSE 146,
                             !.reason_string = << <<114>> >>]
             : t \in AckTypes}

SubscribePackets ==
    {[SubscribeBase EXCEPT !.user_properties = ups]
        : ups \in UserPropertyLists}
    \cup {[SubscribeBase EXCEPT !.subscription_identifier = <<U32(5)>>],
          [SubscribeBase EXCEPT !.subscription_topics =
               @ \o << [topic |-> <<98>>, maximum_qos |-> "AtMostOnce",
                        no_local |-> TRUE, retain_as_published |-> FALSE,
                        retain_handling |-> 0] >>]}

ReasonListPackets ==
    {[ReasonListBase(t) EXCEPT !.user_properties = ups]
        : t \in {"SubscribeAck", "UnsubscribeAck"},
          ups \in UserPropertyLists}
    \cup {[ReasonListBase(t) EXCEPT !.reason_codes = <<0, 128>>,
                                    !.reason_string = << <<114>> >>]
             : t \in {"SubscribeAck", "UnsubscribeAck"}}

UnsubscribePackets ==
    {[UnsubscribeBase EXCEPT !.user_properties = ups]
        : ups \in UserPropertyLists}
    \cup {[UnsubscribeBase EXCEPT !.topics = << <<97>>, <<>>, <<98, 99>> >>]}

DisconnectPackets ==
    {[DisconnectBase EXCEPT !.user_properties = ups]
        : ups \in UserPropertyLists}
    \cup {[DisconnectBase EXCEPT !.reason_code = 4,
                                 !.session_expiry_interval = <<U32(5)>>,
                                 !.server_reference = << <<115>> >>]}

AuthenticatePackets ==
    {[AuthenticateBase EXCEPT !.user_properties = ups]
        : ups \in UserPropertyLists}
    \cup {[AuthenticateBase EXCEPT !.reason_code = 24,
                                   !.authentication_method = << <<109>> >>,
                                   !.authentication_data = << <<5, 6>> >>]}

\* the valid packets of the model
Packets ==
    ConnectPackets \cup ConnectAckPackets \cup PublishPackets
    \cup AckPackets \cup SubscribePackets \cup ReasonListPackets
    \cup UnsubscribePackets \cup DisconnectPackets \cup AuthenticatePackets
    \cup {[type |-> "PingRequest"], [type |-> "PingResponse"]}

EncodedFrames == {encode(p) : p \in Packets}

\* wire forms without reason code or property bag
ShortFrames ==
    {<<PacketTypeCode(t) * 16, 2, 0, 7>> : t \in AckTypes}
    \cup {<<PacketTypeCode(t) * 16, 3, 0, 7, 0>> : t \in AckTypes}
    \cup {<<224, 0>>, <<224, 1, 0>>, <<240, 0>>, <<240, 1, 0>>}

ValidFrames == EncodedFrames \cup ShortFrames

\* hand-made frames: any body under a header that declares its length
RawBytes == {0, 1}

RawBodies == UNION {[1..n -> RawBytes] : n \in 0..MaxRaw}

RawFirstBytes == {16 * k : k \in 0..15} \cup {50, 54}

RawFrames ==
    {Frame(fb, body) : fb \in RawFirstBytes, body \in RawBodies}
    \cup {<<48, 128, 128, 128, 1>>, <<48, 128, 128, 128, 128, 1>>}

\* a well-formed value for each property
SampleValue(name) ==
    IF name \in U8Properties THEN 1
    ELSE IF name \in U16Properties THEN 2
    ELSE IF name \in U32Properties THEN U32(3)
    ELSE IF name \in StringProperties THEN <<115>>
    ELSE IF name \in BinaryProperties THEN <<0>>
    ELSE IF name = "MaximumQos" THEN "AtLeastOnce"
    ELSE << <<107>>, <<118>> >>

PropertyNames == {PropertyName(id) : id \in PropertyIds}

BagPackets == {p \in BasePackets : HasBag(p.type)}

\* frames that carry one more property than their packet has; 4 is an
\* identifier outside the table
ExtraFrames ==
    {encode_with(p, enc_property(n, SampleValue(n)))
        : p \in BagPackets, n \in PropertyNames}
    \cup {encode_with(p, <<4, 0>>) : p \in BagPackets}

\* the singletons put between user properties: one of each payload type,
\* the binary ones and SubscriptionIdentifier
InterleavedNames ==
    {"PayloadFormatIndicator", "TopicAlias", "SessionExpiryInterval",
     "ReasonString", "MaximumQos", "CorrelationData", "AuthenticationData",
     "SubscriptionIdentifier"}

\* a bag with one singleton between user properties, the first user
\* property twice
InterleavedUserProps == <<UserProps(2)[1], UserProps(2)[1], UserProps(2)[2]>>

Interleaved(n) ==
    enc_property("UserProperty", InterleavedUserProps[1])
    \o enc_property(n, SampleValue(n))
    \o enc_property("UserProperty", InterleavedUserProps[2])
    \o enc_property("UserProperty", InterleavedUserProps[3])

InterleavedFrames ==
    {encode_with(p, Interleaved(n)) : p \in BagPackets, n \in InterleavedNames}

\* Connect frames of other protocols: level 4, and "MQIsdp" at level 3
OtherProtocolFrames ==
    {encode([ConnectBase EXCEPT !.protocol_level = 4]),
     encode([ConnectBase EXCEPT !.protocol_name = <<77, 81, 73, 115, 100, 112>>,
                                !.protocol_level = 3])}

\* a Subscribe frame that ends after its (empty) property bag
EmptySubscribeFrames == {<<130, 3, 0, 7, 0>>}

\* packets with a subscription identifier of one, two and four bytes on
\* the wire, alone and in front of another property
SubscriptionIdPackets ==
    {[PublishBase EXCEPT !.subscription_identifier = <<U32(5)>>],
     [PublishBase EXCEPT !.subscription_identifier = <<U32(5)>>,
                         !.content_type = << <<99>> >>],
     [PublishBase EXCEPT !.subscription_identifier = <<U32(200)>>,
                         !.user_properties = UserProps(1)],
     [PublishBase EXCEPT !.subscription_identifier = <<U32(2097152)>>],
     [SubscribeBase EXCEPT !.subscription_identifier = <<U32(5)>>],
     [SubscribeBase EXCEPT !.subscription_identifier = <<U32(5)>>,
                           !.user_properties = UserProps(1)]}

SubscriptionIdFrames == {encode(p) : p \in SubscriptionIdPackets}

\* a second well-formed value for each singleton property
OtherValue(name) ==
    IF name \in U8Properties THEN 0
    ELSE IF name \in U16Properties THEN 258
    ELSE IF name \in U32Properties THEN U32(70000)
    ELSE IF name \in StringProperties THEN <<116, 119>>
    ELSE IF name \in BinaryProperties THEN <<7>>
    ELSE "AtMostOnce"

\* a bag that holds the singleton n twice
Duplicated(n) ==
    enc_property(n, SampleValue(n)) \o enc_property(n, OtherValue(n))

\* for each base packet and each property its kind stores, the frame whose
\* bag holds that property twice
DuplicateFrameOf ==
    [p \in BagPackets |->
        [i \in 1..Len(Acceptor(p.type)) |->
            encode_with(p, Duplicated(Acceptor(p.type)[i][1]))]]

DuplicateFrames ==
    UNION {{DuplicateFrameOf[p][i] : i \in 1..Len(Acceptor(p.type))}
              : p \in BagPackets}

\* frames whose remaining length (2) ends in front of the property bag,
\* each followed by a zero byte: Publish, Subscribe, SubscribeAck,
\* Unsubscribe, UnsubscribeAck
ShortLengthFrames ==
    {<<48, 2, 0, 0, 0>>, <<130, 2, 0, 7, 0>>, <<144, 2, 0, 7, 0>>,
     <<162, 2, 0, 7, 0>>, <<176, 2, 0, 7, 0>>}

Frames ==
    ValidFrames \cup RawFrames \cup ExtraFrames \cup InterleavedFrames
    \cup OtherProtocolFrames \cup EmptySubscribeFrames
    \cup SubscriptionIdFrames \cup DuplicateFrames \cup ShortLengthFrames

\* inputs of the length-prefixed readers
BinaryBytes == {0, 1, 2}

BinaryInputs == UNION {[1..n -> BinaryBytes] : n \in 0..MaxBinary}

VbiBytes == {0, 1, 127, 128, 255}

VbiInputs == UNION {[1..n -> VbiBytes] : n \in 0..MaxVbiLen}

(***************************************************************************)
(* The caller: bytes arrive in the buffer, decode_mqtt is called on it.    *)
(***************************************************************************)
Init ==
    /\ frame \in Frames
    /\ suffix \in Suffixes
    /\ wire = frame \o suffix
    /\ buf = <<>>
    /\ before = <<>>
    /\ outcome = Idle
    /\ waited = FALSE
    /\ overflow_checks \in BOOLEAN

\* the next n bytes of the peer reach the buffer
Receive(n) ==
    /\ outcome.st # "Panicked"
    /\ n \in 1..Len(wire)
    /\ buf' = buf \o SubSeq(wire, 1, n)
    /\ wire' = SubSeq(wire, n + 1, Len(wire))
    /\ before' = <<>>
    /\ outcome' = Idle
    /\ waited' = (waited \/ outcome.st = "Incomplete")
    /\ UNCHANGED <<frame, suffix, overflow_checks>>

\* one call of decode_mqtt(&mut buf)
Decode ==
    /\ outcome.st # "Panicked"
    /\ LET r == decode_mqtt(buf, overflow_checks) IN
       /\ before' = buf
       /\ outcome' = r
       /\ buf' = BufferAfter(buf, r)
    /\ UNCHANGED <<frame, suffix, wire, waited, overflow_checks>>

Next == (\E n \in 1..Len(wire) : Receive(n)) \/ Decode

Spec == Init /\ [][Next]_vars

\* decode_variable_int on its own: buf is the bytes under the cursor
InitVbi ==
    /\ frame = <<>>
    /\ suffix = <<>>
    /\ wire = <<>>
    /\ buf \in VbiInputs
    /\ before = <<>>
    /\ outcome = Idle
    /\ waited = FALSE
    /\ overflow_checks = FALSE

ReadVbi ==
    /\ outcome.st = "Idle"
    /\ before' = buf
    /\ outcome' = decode_variable_int(buf, 0)
    /\ UNCHANGED <<frame, suffix, wire, buf, waited, overflow_checks>>

NextVbi == ReadVbi

SpecVbi == InitVbi /\ [][NextVbi]_vars

\* the length-prefixed readers on their own: buf is the bytes under the
\* cursor; the outcome also tells which reader was called, and with which
\* size
InitBinary ==
    /\ frame = <<>>
    /\ suffix = <<>>
    /\ wire = <<>>
    /\ buf \in BinaryInputs
    /\ before = <<>>
    /\ outcome = Idle
    /\ waited = FALSE
    /\ overflow_checks = FALSE

CallOf(reader, size, r) ==
    [st |-> r.st, val |-> r.val, pos |-> r.pos, err |-> r.err,
     reader |-> reader, size |-> size]

ReadBinaryData ==
    /\ outcome.st = "Idle"
    /\ before' = buf
    /\ outcome' = CallOf("decode_binary_data", 0, decode_binary_data(buf, 0))
    /\ UNCHANGED <<frame, suffix, wire, buf, waited, overflow_checks>>

ReadBinaryDataWithSize ==
    /\ outcome.st = "Idle"
    /\ \E size \in 0..(Len(buf) + 1) :
          outcome' = CallOf("decode_binary_data_with_size", size,
                            decode_binary_data_with_size(buf, 0, size))
    /\ before' = buf
    /\ UNCHANGED <<frame, suffix, wire, buf, waited, overflow_checks>>

ReadString ==
    /\ outcome.st = "Idle"
    /\ before' = buf
    /\ outcome' = CallOf("decode_string", 0, decode_string(buf, 0))
    /\ UNCHANGED <<frame, suffix, wire, buf, waited, overflow_checks>>

NextBinary == ReadBinaryData \/ ReadBinaryDataWithSize \/ ReadString

SpecBinary == InitBinary /\ [][NextBinary]_vars

(***************************************************************************)
(* What the claims speak about, read off the bytes alone                   *)
(***************************************************************************)
Called == outcome.st # "Idle"

StartsWith(b, f) == Len(b) >= Len(f) /\ SubSeq(b, 1, Len(f)) = f

IsStrictPrefix(b, f) == Len(b) < Len(f) /\ SubSeq(f, 1, Len(b)) = b

\* number of bytes of the variable-byte integer that starts after `from`
\* bytes of b: 1..4, or 0 if none of the (at most four) bytes present ends it
VbiEnd(b, from) ==
    LET ends == {i \in 1..Min(4, Len(b) - from) : b[from + i] < 128} IN
    IF ends = {} THEN 0 ELSE CHOOSE i \in ends : \A j \in ends : i <= j

RECURSIVE VbiValue(_, _, _)
VbiValue(b, from, n) ==
    IF n = 0 THEN 0
    ELSE VbiValue(b, from, n - 1) + (b[from + n] % 128) * (128 ^ (n - 1))

RemainingLength(b) == VbiValue(b, 1, VbiEnd(b, 1))

\* 1 + VBI-encoded-length + remaining-length
FrameLength(b) == 1 + VbiEnd(b, 1) + RemainingLength(b)

\* b holds the first byte, a complete remaining-length and that many bytes
HasFullFrame(b) ==
    Len(b) >= 2 /\ VbiEnd(b, 1) > 0 /\ Len(b) >= FrameLength(b)

KindCode(b) == b[1] \div 16

\* computed once: the frame of each packet and of each extra property
EncodingOf == [p \in Packets |-> encode(p)]

ExtraFrameOf ==
    [p \in BagPackets |->
        [n \in PropertyNames |->
            encode_with(p, enc_property(n, SampleValue(n)))]]

InterleavedFrameOf ==
    [p \in BagPackets |->
        [n \in InterleavedNames |-> encode_with(p, Interleaved(n))]]

\* the properties the closure of a kind stores
Accepted(type) ==
    {Acceptor(type)[i][1] : i \in 1..Len(Acceptor(type))}
    \cup {"UserProperty"}

\* the result of decoding b at once, for either build
OneShot(b) == {decode_mqtt(b, oc) : oc \in BOOLEAN}

\* a reader that produced a value left the cursor behind where it started
Advances(r, pos) == r.st = "Produced" => r.pos > pos

SameResult(r, q) ==
    /\ r.st = q.st
    /\ r.err = q.err
    /\ r.st = "Produced" => (r.pos = q.pos /\ r.val = q.val)

(***************************************************************************)
(* C1: whenever decode_mqtt returns Incomplete the caller's buffer is      *)
(* unchanged, wherever the decoder had got to; the buffer changes only on  *)
(* a Produced outcome.                                                     *)
(***************************************************************************)
C1_BufferChangesOnlyOnProduced ==
    (Called /\ outcome.st # "Produced") => buf = before

\* Incomplete came from inside a per-kind decoder, the cursor well past the
\* fixed header
C1_Witness ==
    /\ outcome.st = "Incomplete"
    /\ HasFullFrame(before)
    /\ outcome.pos > 1 + VbiEnd(before, 1)
    /\ buf = before

(***************************************************************************)
(* C2: for every valid frame E and suffix S, decode_mqtt on E followed by  *)
(* S returns Produced and drains exactly 1 + VBI length + remaining length *)
(* bytes, leaving exactly S.                                               *)
(***************************************************************************)
C2_PrefixOnlyConsumption ==
    (Called /\ frame \in ValidFrames /\ StartsWith(before, frame)) =>
        /\ outcome.st = "Produced"
        /\ Len(before) - Len(buf) = FrameLength(before)
        /\ buf = SubSeq(before, Len(frame) + 1, Len(before))

(***************************************************************************)
(* C3: for every valid frame E split as E1 E2 with E1 a strict prefix, the *)
(* call on E1 returns Incomplete and leaves the buffer unchanged, and the  *)
(* call after E2 arrived returns Produced with the packet of decoding E at *)
(* once.                                                                   *)
(***************************************************************************)
C3_Resumability ==
    (Called /\ frame \in ValidFrames) =>
        /\ IsStrictPrefix(before, frame) =>
               (outcome.st = "Incomplete" /\ buf = before)
        /\ (waited /\ StartsWith(before, frame)) =>
               /\ outcome.st = "Produced"
               /\ \A r \in OneShot(frame) :
                      r.st = "Produced" /\ r.val = outcome.val

(***************************************************************************)
(* C4: decode_variable_int returns the value of every variable-byte        *)
(* integer of 1 to 4 bytes, fails with InvalidRemainingLength only when    *)
(* the fourth byte has its high bit set, and returns Incomplete when the   *)
(* bytes run out before a terminating byte.                                *)
(***************************************************************************)
C4_VariableIntAccepted ==
    Called =>
        LET n == VbiEnd(before, 0) IN
        IF n > 0
        THEN /\ outcome.st = "Produced"
             /\ outcome.val = VbiValue(before, 0, n)
             /\ outcome.pos = n
        ELSE IF Len(before) >= 4
             THEN outcome.st = "Failed"
                  /\ outcome.err = "InvalidRemainingLength"
             ELSE outcome.st = "Incomplete"

(***************************************************************************)
(* C5: when the buffer holds the first byte, a complete remaining length   *)
(* and at least that many further bytes, decode_mqtt never returns         *)
(* Incomplete.                                                             *)
(***************************************************************************)
C5_IncompleteOnlyWithoutFullFrame ==
    (Called /\ HasFullFrame(before)) => outcome.st # "Incomplete"

(***************************************************************************)
(* C6: for a fully buffered frame F the outcome and the number of bytes    *)
(* drained do not depend on the bytes that follow F.                       *)
(***************************************************************************)
C6_SuffixIndependent ==
    (/\ Called
     /\ HasFullFrame(frame)
     /\ FrameLength(frame) = Len(frame)
     /\ StartsWith(before, frame)) =>
        \A s2 \in Suffixes :
            \E r \in OneShot(frame \o s2) :
                /\ SameResult(r, outcome)
                /\ Len(frame \o s2) - Len(BufferAfter(frame \o s2, r))
                       = Len(before) - Len(buf)

(***************************************************************************)
(* C7: round trip: decode_mqtt on the encoding of a valid packet p returns *)
(* Produced(p) and leaves the buffer empty.                                *)
(***************************************************************************)
C7_RoundTrip ==
    Called =>
        \A p \in Packets :
            before = EncodingOf[p] =>
                /\ outcome.st = "Produced"
                /\ outcome.val = p
                /\ buf = <<>>

(***************************************************************************)
(* C8: a Publish packet produced by decode_mqtt has a packet_id iff its    *)
(* qos is AtLeastOnce or ExactlyOnce; header QoS bits 3 produce no packet  *)
(* and fail with InvalidQoS.                                               *)
(***************************************************************************)
C8_QosPacketIdCoupling ==
    /\ (outcome.st = "Produced" /\ KindCode(before) = 3) =>
           /\ outcome.val.type = "Publish"
           /\ outcome.val.qos \in QoSs
           /\ outcome.val.packet_id # <<>>
                  <=> outcome.val.qos \in {"AtLeastOnce", "ExactlyOnce"}
    /\ (/\ Called
        /\ before # <<>>
        /\ KindCode(before) = 3
        /\ (before[1] \div 2) % 4 = 3) =>
           /\ outcome.st # "Produced"
           /\ HasFullFrame(before) =>
                  (outcome.st = "Failed" /\ outcome.err = "InvalidQoS")

C8_Witness ==
    /\ outcome.st = "Produced"
    /\ KindCode(before) = 3
    /\ outcome.val.qos = "AtLeastOnce"
    /\ outcome.val.packet_id = <<7>>
    /\ outcome.val.payload # <<>>

(***************************************************************************)
(* C9: with reason code and property bag absent (remaining length 2 for    *)
(* the four acks, 0 for Disconnect and Authenticate) the packet has its    *)
(* kind's default reason code and nothing else set, and the whole frame is *)
(* drained; properties are read only from remaining length 4 (acks) and 2  *)
(* (Disconnect, Authenticate) on.                                          *)
(***************************************************************************)
C9_DefaultsWhenAbsent ==
    (Called /\ HasFullFrame(before)) =>
        LET kind == PacketType_try_from(KindCode(before))
            rl == RemainingLength(before)
            header == 1 + VbiEnd(before, 1)
        IN
        /\ (kind # <<>> /\ kind[1] \in AckTypes /\ rl = 2) =>
               /\ outcome.st = "Produced"
               /\ outcome.val =
                      [type |-> kind[1],
                       packet_id |-> before[header + 1] * 256
                                     + before[header + 2],
                       reason_code |-> Success,
                       reason_string |-> <<>>,
                       user_properties |-> <<>>]
               /\ buf = SubSeq(before, header + 3, Len(before))
        /\ (kind = <<"Disconnect">> /\ rl = 0) =>
               /\ outcome.st = "Produced"
               /\ outcome.val =
                      [type |-> "Disconnect",
                       reason_code |-> NormalDisconnection,
                       session_expiry_interval |-> <<>>,
                       reason_string |-> <<>>,
                       user_properties |-> <<>>,
                       server_reference |-> <<>>]
               /\ buf = SubSeq(before, header + 1, Len(before))
        /\ (kind = <<"Authenticate">> /\ rl = 0) =>
               /\ outcome.st = "Produced"
               /\ outcome.val =
                      [type |-> "Authenticate",
                       reason_code |-> Success,
                       authentication_method |-> <<>>,
                       authentication_data |-> <<>>,
                       reason_string |-> <<>>,
                       user_properties |-> <<>>]
               /\ buf = SubSeq(before, header + 1, Len(before))
        /\ (/\ outcome.st = "Produced"
            /\ kind[1] \in AckTypes
            /\ rl < 4) =>
               /\ outcome.val.reason_string = <<>>
               /\ outcome.val.user_properties = <<>>
               /\ outcome.pos <= header + 3
        /\ (/\ outcome.st = "Produced"
            /\ kind[1] \in {"Disconnect", "Authenticate"}
            /\ rl < 2) =>
               /\ outcome.val.reason_string = <<>>
               /\ outcome.val.user_properties = <<>>
               /\ outcome.pos <= header + 1

\* a short PublishComplete in front of the next frame
C9_Witness ==
    /\ outcome.st = "Produced"
    /\ before = <<112, 2, 0, 7, 224, 0>>
    /\ outcome.val.type = "PublishComplete"
    /\ outcome.val.reason_code = Success
    /\ buf = <<224, 0>>

(***************************************************************************)
(* C10: a property of the table that the packet kind does not take is      *)
(* ignored: the frame that carries it yields Produced with the packet of   *)
(* the frame without it; an identifier outside the table fails with        *)
(* InvalidPropertyId.                                                      *)
(***************************************************************************)
C10_IllegalPlacementIgnored ==
    Called =>
        \A p \in BagPackets :
            /\ \A n \in PropertyNames \ Accepted(p.type) :
                   (frame = ExtraFrameOf[p][n] /\ StartsWith(before, frame))
                   => /\ outcome.st = "Produced"
                      /\ outcome.val = p
            /\ (frame = encode_with(p, <<4, 0>>)
                /\ StartsWith(before, frame))
                   => (outcome.st = "Failed"
                       /\ outcome.err = "InvalidPropertyId")

(***************************************************************************)
(* C11: for every packet kind with a property bag, user_properties of the  *)
(* produced packet holds exactly the UserProperty entries of the bag, each *)
(* occurrence kept, in wire order, whichever singleton property stands     *)
(* between them.                                                           *)
(***************************************************************************)
C11_UserPropertiesInWireOrder ==
    Called =>
        \A p \in BagPackets :
            \A n \in InterleavedNames :
                (frame = InterleavedFrameOf[p][n] /\ StartsWith(before, frame))
                => /\ outcome.st = "Produced"
                   /\ outcome.val.user_properties = InterleavedUserProps

(***************************************************************************)
(* C12: every Connect packet produced by decode_mqtt has protocol_name     *)
(* "MQTT" and protocol_level 5; a Connect frame with another name or level *)
(* produces no Connect packet.                                             *)
(***************************************************************************)
C12_ConnectProtocolChecked ==
    (outcome.st = "Produced" /\ outcome.val.type = "Connect") =>
        /\ outcome.val.protocol_name = <<77, 81, 84, 84>>
        /\ outcome.val.protocol_level = 5

(***************************************************************************)
(* C13: every Subscribe packet produced by decode_mqtt carries at least    *)
(* one subscription entry and its entries fill the remainder of the frame; *)
(* a Subscribe frame with an empty payload produces no Subscribe packet.   *)
(***************************************************************************)
C13_SubscribeNonEmpty ==
    (outcome.st = "Produced" /\ outcome.val.type = "Subscribe") =>
        /\ outcome.val.subscription_topics # <<>>
        /\ outcome.pos = FrameLength(before)

(***************************************************************************)
(* C14: when decode_binary_data or decode_binary_data_with_size produces a *)
(* value, the cursor has advanced past the bytes returned: by 2 + N for    *)
(* the length-prefixed form, by size for the externally sized form, as     *)
(* decode_string does.                                                     *)
(***************************************************************************)
C14_BinaryReadersAdvance ==
    (Called /\ outcome.st = "Produced") =>
        /\ outcome.reader \in {"decode_binary_data", "decode_string"} =>
               /\ Len(outcome.val) = before[1] * 256 + before[2]
               /\ outcome.val = Slice(before, 2, Len(outcome.val))
               /\ outcome.pos = 2 + Len(outcome.val)
        /\ outcome.reader = "decode_binary_data_with_size" =>
               /\ outcome.val = Slice(before, 0, outcome.size)
               /\ outcome.pos = outcome.size

(***************************************************************************)
(* C15: the payload of SubscriptionIdentifier (id 11) is a variable-byte   *)
(* integer of 1 to 4 bytes: a Publish or Subscribe whose bag holds id 11   *)
(* yields that value as subscription_identifier, and the property after it *)
(* is read from the byte right after the integer.                          *)
(***************************************************************************)
C15_SubscriptionIdentifierIsVbi ==
    Called =>
        \A p \in SubscriptionIdPackets :
            (frame = encode(p) /\ StartsWith(before, frame)) =>
                /\ outcome.st = "Produced"
                /\ outcome.val.subscription_identifier
                       = p.subscription_identifier
                /\ outcome.val = p

(***************************************************************************)
(* C16: when a singleton property occurs twice in one property bag,        *)
(* decode_mqtt raises no error and the field of the produced packet holds  *)
(* the value of the last occurrence on the wire.                           *)
(***************************************************************************)
C16_LastWriterWins ==
    Called =>
        \A p \in BagPackets :
            \A i \in 1..Len(Acceptor(p.type)) :
                (frame = DuplicateFrameOf[p][i] /\ StartsWith(before, frame))
                => /\ outcome.st = "Produced"
                   /\ outcome.val =
                          [p EXCEPT ![Acceptor(p.type)[i][2]] =
                              <<OtherValue(Acceptor(p.type)[i][1])>>]

(***************************************************************************)
(* C17: a call of decode_mqtt that returns Failed leaves the buffer as it  *)
(* was, and a further call on it returns the same error again: a malformed *)
(* frame is never skipped by the decoder.                                  *)
(***************************************************************************)
C17_FailedLeavesBufferUnchanged ==
    [][/\ outcome'.st = "Failed" => (buf' = buf /\ before' = buf)
       /\ (outcome.st = "Failed" /\ outcome'.st # "Idle") =>
              (outcome' = outcome /\ buf' = buf)]_vars

\* the error came from inside a per-kind decoder of a fully buffered frame
\* and the next frame is already behind it
C17_Witness ==
    /\ outcome.st = "Failed"
    /\ outcome.err = "InvalidPropertyId"
    /\ HasFullFrame(before)
    /\ Len(before) > FrameLength(before)
    /\ outcome.pos > 1 + VbiEnd(before, 1)
    /\ buf = before

(***************************************************************************)
(* C18: the payload size, remaining_packet_length minus the size of the    *)
(* variable header, never underflows for a buffer that passes the length   *)
(* check of the frame driver: no call is aborted by the overflow check of  *)
(* the subtraction.                                                        *)
(***************************************************************************)
C18_PayloadSizeNeverUnderflows ==
    (Called /\ HasFullFrame(before)) => outcome.st # "Panicked"

(***************************************************************************)
(* C19: every call of decode_mqtt ends with Produced, Incomplete or        *)
(* Failed, and what one iteration of each loop reads (a byte in the VBI    *)
(* loop, a property in decode_properties, a topic and its options in       *)
(* decode_subscribe, a topic in decode_unsubscribe) either returns or      *)
(* moves the cursor forward, from every position of the buffer.            *)
(***************************************************************************)
C19_TerminatesWithResult ==
    Called =>
        /\ outcome.st \in {"Produced", "Incomplete", "Failed"}
        /\ outcome.pos <= Len(before)
        /\ \A pos \in 0..Len(before) :
               /\ Advances(read_u8(before, pos), pos)
               /\ Advances(read_property(before, pos), pos)
               /\ Advances(decode_string(before, pos), pos)

====
